---- MODULE Spec2Model ----
(***************************************************************************)
(* A model of ArcCStr (src/src/lib.rs): a reference-counted, immutable,    *)
(* null-terminated string whose atomic counter and payload share one heap  *)
(* block.  Threads construct, clone, dereference, send, forget and drop    *)
(* handles; every atomic access of the source is one step of the model.    *)
(***************************************************************************)
EXTENDS Integers, Sequences, FiniteSets, TLC

\* ------------------------------------------------------------- bounds
\* Number of threads operating on handles.
NumThreads == 2
\* Number of blocks the allocator can hand out at the same time.
NumAddr == 2
\* Number of constructions (From calls) in one behaviour.
MaxAllocs == 3
\* Width in bits of the counter (usize); the arithmetic wraps at 2^W.
W == 2
\* Longest input byte sequence of the content specification.
MaxLen == 2
\* Largest byte value of the content specification.
MaxByte == 2

\* ---------------------------------------------------------- constants
\* size_of::<atomic::AtomicUsize>(), in bytes.
aus == 8
\* align_of::<atomic::AtomicUsize>(), in bytes.
align == 8
\* The null address, returned by heap::allocate on failure.
NULL == 0
\* The value of memory that was never written or was given back.
POISON == -1

Threads == 1..NumThreads
Addr == 1..NumAddr
AllocId == 1..MaxAllocs
Modulus == 2^W
MAX_REFCOUNT == 2^(W - 1) - 1

\* The byte sequences handed to From in the protocol specification: the empty
\* slice, a one-byte string and a string with a zero byte before its end.
Inputs == {<<>>, <<1>>, <<1, 0>>}

VARIABLES
  status,    \* "running" | "abort" (abort()) | "segv" (fault on a null write)
  pc,        \* pc[t]: the place thread t has reached in the operation it runs
  self,      \* self[t]: the allocation id of the handle the operation is on
  s,         \* s[t]: the local pointer s of From (NULL when allocate failed)
  old_size,  \* old_size[t]: the value clone's fetch_add returned
  blen,      \* blen[t]: the local blen of drop_slow
  held,      \* held[t][id]: the number of handles of allocation id thread t owns
  leaked,    \* leaked[id]: handles of id discarded by mem::forget
  ptr,       \* ptr[id]: the field ptr of the handles of allocation id
  b,         \* b[id]: the argument b of the From call that made allocation id
  mem,       \* mem[a]: the block at address a: counter, payload bytes, size
  owner,     \* owner[a]: the allocation id the allocator gave block a to, or 0
  nextId,    \* the id the next From call gets
  deallocs,  \* deallocs[id]: how often heap::deallocate ran for allocation id
  dealloc_size, \* dealloc_size[id]: the size last passed to heap::deallocate for id
  uaf,       \* TRUE once an access through a handle touched a block not its own
  origin,    \* origin[id]: the entry point and the source value that made allocation id
  dealloc_align \* dealloc_align[id]: the alignment last passed to heap::deallocate

vars == <<status, pc, self, s, old_size, blen, held, leaked, ptr, b, mem,
          owner, nextId, deallocs, dealloc_size, uaf, origin, dealloc_align>>

\* ------------------------------------------------------------- memory
FreeBlock == [count |-> POISON, bytes |-> <<>>, size |-> 0, align |-> 0]

\* heap::allocate(size, align): a block of size bytes, nothing written yet.
FreshBlock(size, al) ==
  [count |-> POISON, bytes |-> [i \in 1..(size - aus) |-> POISON],
   size |-> size, align |-> al]

\* The size From asks the allocator for.
AllocSize(bytes) == aus + Len(bytes) + 1

FreeAddrs == {a \in Addr : owner[a] = 0}

\* The bytes of block a from byte offset off on (off >= aus: behind the header).
ReadFrom(a, off) ==
  IF a \in Addr
    THEN SubSeq(mem[a].bytes, off - aus + 1, Len(mem[a].bytes))
    ELSE <<>>

\* strlen: the number of bytes before the first zero byte (the whole region
\* when it holds no zero byte: the scan leaves the block).
RECURSIVE StrlenFrom(_, _)
StrlenFrom(bytes, i) ==
  IF i > Len(bytes) THEN Len(bytes)
  ELSE IF bytes[i] = 0 THEN i - 1
  ELSE StrlenFrom(bytes, i + 1)

strlen(bytes) == StrlenFrom(bytes, 1)

\* A view that takes the whole region, whatever zero bytes it holds.
CStrWhole(bytes) == bytes

\* CStr::from_ptr: the view from the pointer up to and including the first zero.
CStrFromPtr(bytes) ==
  SubSeq(bytes, 1, IF strlen(bytes) < Len(bytes) THEN strlen(bytes) + 1
                                                    ELSE Len(bytes))

\* CStr::to_bytes_with_nul and CStr::to_bytes of a view.
to_bytes_with_nul(view) == view
to_bytes(view) == SubSeq(view, 1, Len(view) - 1)

\* The offset deref adds to the handle's pointer.
DerefOffset == aus

\* Deref for ArcCStr: the CStr that starts aus bytes behind the handle's pointer.
deref(id) == CStrFromPtr(ReadFrom(ptr[id], DerefOffset))

\* ArcCStr::atomic and ArcCStr::strong_count: the counter at the pointer.
atomic(id) == IF ptr[id] \in Addr THEN mem[ptr[id]].count ELSE POISON
strong_count(id) == atomic(id)

\* A ptr_eq that compares the two counters.
ptr_eqByCount(x, y) == atomic(x) = atomic(y)

\* ArcCStr::ptr_eq: the two handles hold the same address.
ptr_eq(x, y) == ptr[x] = ptr[y]

\* <[u8] as Ord>::cmp: the first differing byte decides, else the shorter
\* sequence is the lesser.
RECURSIVE SliceCmp(_, _)
SliceCmp(x, y) ==
  IF Len(x) = 0 /\ Len(y) = 0 THEN "Equal"
  ELSE IF Len(x) = 0 THEN "Less"
  ELSE IF Len(y) = 0 THEN "Greater"
  ELSE IF Head(x) < Head(y) THEN "Less"
  ELSE IF Head(x) > Head(y) THEN "Greater"
  ELSE SliceCmp(Tail(x), Tail(y))

\* An eq that compares the handles' addresses.
eqByAddress(x, y) == ptr[x] = ptr[y]

\* PartialEq, PartialOrd and Ord for ArcCStr: each dereferences both handles
\* and hands the two CStr to the comparison of CStr, which compares to_bytes().
eq(x, y) == to_bytes(deref(x)) = to_bytes(deref(y))
ne(x, y) == to_bytes(deref(x)) # to_bytes(deref(y))
cmp(x, y) == SliceCmp(to_bytes(deref(x)), to_bytes(deref(y)))
partial_cmp(x, y) == <<"Some", cmp(x, y)>>
lt(x, y) == cmp(x, y) = "Less"
le(x, y) == cmp(x, y) \in {"Less", "Equal"}
gt(x, y) == cmp(x, y) = "Greater"
ge(x, y) == cmp(x, y) \in {"Greater", "Equal"}

\* Hash for ArcCStr: what the Hasher is fed, the view's length and its bytes
\* with the terminator.
hash(x) == <<Len(deref(x))>> \o to_bytes_with_nul(deref(x))

\* ascii::escape_default: the chars a byte is written as, and the lower-case
\* hexadecimal digit of the \x escape.
HexDigit(d) == IF d < 10 THEN 48 + d ELSE 87 + d
escape_default(c) ==
  IF c = 9 THEN <<92, 116>>
  ELSE IF c = 13 THEN <<92, 114>>
  ELSE IF c = 10 THEN <<92, 110>>
  ELSE IF c \in {39, 34, 92} THEN <<92, c>>
  ELSE IF c >= 32 /\ c <= 126 THEN <<c>>
  ELSE <<92, 120, HexDigit(c \div 16), HexDigit(c % 16)>>

RECURSIVE Escaped(_)
Escaped(bytes) ==
  IF bytes = <<>> THEN <<>> ELSE escape_default(Head(bytes)) \o Escaped(Tail(bytes))

\* Debug for CStr: a double quote, the escaped bytes of to_bytes(), a double quote.
CStrDebug(view) == <<34>> \o Escaped(to_bytes(view)) \o <<34>>

\* Pointer for ArcCStr, lines 534-538: the address is what is written.
fmtPointer(id) == <<ptr[id]>>

\* Debug for ArcCStr, lines 528-532: fmt::Debug::fmt(&**self, f).
fmt(id) == CStrDebug(deref(id))

\* The block a handle of id points to is the one allocated for id.
Valid(id) == ptr[id] \in Addr /\ owner[ptr[id]] = id

\* ------------------------------------------------------------ sources
\* The values the From implementations take: a byte slice is its bytes, a str
\* and a String are sequences of chars (code points below 2048), a CString and
\* a CStr are bytes that end in their own terminator.
NoSource == [kind |-> "none", data |-> <<>>]
Source(kind, data) == [kind |-> kind, data |-> data]

\* The UTF-8 encoding of one char: one byte below 128, else two.
Utf8Char(c) ==
  IF c < 128 THEN <<c>> ELSE <<192 + (c \div 64), 128 + (c % 64)>>

\* str::as_bytes: the UTF-8 bytes a str consists of.
RECURSIVE as_bytes(_)
as_bytes(text) ==
  IF text = <<>> THEN <<>> ELSE Utf8Char(Head(text)) \o as_bytes(Tail(text))

\* Deref for String (&*s): the str with the String's chars; Deref for CString
\* (&*s): the CStr over the CString's bytes, terminator included.
StringDeref(string) == string
CStringDeref(cstring) == cstring

\* ------------------------------------------------------------ initial
Init ==
  /\ status = "running"
  /\ pc = [t \in Threads |-> "idle"]
  /\ self = [t \in Threads |-> 0]
  /\ s = [t \in Threads |-> NULL]
  /\ old_size = [t \in Threads |-> 0]
  /\ blen = [t \in Threads |-> 0]
  /\ held = [t \in Threads |-> [id \in AllocId |-> 0]]
  /\ leaked = [id \in AllocId |-> 0]
  /\ ptr = [id \in AllocId |-> NULL]
  /\ b = [id \in AllocId |-> <<>>]
  /\ mem = [a \in Addr |-> FreeBlock]
  /\ owner = [a \in Addr |-> 0]
  /\ nextId = 1
  /\ deallocs = [id \in AllocId |-> 0]
  /\ dealloc_size = [id \in AllocId |-> 0]
  /\ uaf = FALSE
  /\ origin = [id \in AllocId |-> NoSource]
  /\ dealloc_align = [id \in AllocId |-> 0]

Idle(t) == status = "running" /\ pc[t] = "idle"
At(t, place) == status = "running" /\ pc[t] = place

\* ------------------------------------------------------- construction
\* From<&[u8]>::from, lines 147-152: the size is computed and heap::allocate
\* called; it returns a free block, or null when there is none.
FromAllocate(t, bytes) ==
  /\ Idle(t)
  /\ nextId <= MaxAllocs
  /\ pc' = [pc EXCEPT ![t] = "from_store"]
  /\ self' = [self EXCEPT ![t] = nextId]
  /\ b' = [b EXCEPT ![nextId] = bytes]
  /\ nextId' = nextId + 1
  /\ IF FreeAddrs = {}
       THEN /\ s' = [s EXCEPT ![t] = NULL]
            /\ UNCHANGED <<mem, owner>>
       ELSE \E a \in FreeAddrs :
            /\ s' = [s EXCEPT ![t] = a]
            /\ mem' = [mem EXCEPT ![a] = FreshBlock(AllocSize(bytes), align)]
            /\ owner' = [owner EXCEPT ![a] = nextId]
  /\ UNCHANGED <<status, old_size, blen, held, leaked, ptr, deallocs, dealloc_size, uaf,
                 dealloc_align>>

\* The source of the allocation being made is put on record.
Record(kind, data) == origin' = [origin EXCEPT ![nextId] = Source(kind, data)]

\* The five entry points.  From<&[u8]> (line 145) is entered with the slice;
\* From<&str> (173-177) enters it with s.as_bytes(); From<String> (179-183)
\* with the bytes of &*s; From<&CStr> (193-197) with s.to_bytes(), the bytes
\* without the terminator; From<CString> (186-190) with those of &*s.
FromSlice(t, bytes) ==
  FromAllocate(t, bytes) /\ Record("slice", bytes)
FromStr(t, text) ==
  FromAllocate(t, as_bytes(text)) /\ Record("str", text)
FromString(t, string) ==
  FromAllocate(t, as_bytes(StringDeref(string))) /\ Record("String", string)
FromCStr(t, cstr) ==
  FromAllocate(t, to_bytes(cstr)) /\ Record("CStr", cstr)
FromCString(t, cstring) ==
  FromAllocate(t, to_bytes(CStringDeref(cstring))) /\ Record("CString", cstring)

\* The value From stores in the counter.
InitialCount == 1

\* Lines 153-157: s.store(1, SeqCst) through the pointer allocate returned.
\* Nothing checks the pointer: a store through null either faults or lands
\* outside the heap.
FromStore(t) ==
  /\ At(t, "from_store")
  /\ IF s[t] = NULL
       THEN \/ /\ status' = "segv"
               /\ UNCHANGED <<pc, mem>>
            \/ /\ pc' = [pc EXCEPT ![t] = "from_copy"]
               /\ UNCHANGED <<status, mem>>
       ELSE /\ mem' = [mem EXCEPT ![s[t]].count = InitialCount]
            /\ pc' = [pc EXCEPT ![t] = "from_copy"]
            /\ UNCHANGED status
  /\ UNCHANGED <<self, s, old_size, blen, held, leaked, ptr, b, owner, nextId,
                 deallocs, dealloc_size, uaf, origin, dealloc_align>>

\* A copy that stops one byte short.
CopyOneShort(block, src) ==
  [block EXCEPT !.bytes =
     [i \in 1..Len(block.bytes) |-> IF i < Len(src) THEN src[i] ELSE block.bytes[i]]]

\* ptr::copy_nonoverlapping(src, buf, n): the first n bytes behind the header
\* become the bytes of src.
CopyNonoverlapping(block, src) ==
  [block EXCEPT !.bytes =
     [i \in 1..Len(block.bytes) |-> IF i <= Len(src) THEN src[i] ELSE block.bytes[i]]]

\* Lines 159-163: &b[0] panics on an empty slice (index out of bounds);
\* otherwise the input is copied behind the header.
FromCopy(t) ==
  /\ At(t, "from_copy")
  /\ IF Len(b[self[t]]) = 0
       THEN /\ pc' = [pc EXCEPT ![t] = "panicked"]
            /\ UNCHANGED <<status, mem>>
       ELSE IF s[t] = NULL
         THEN \/ /\ status' = "segv"
                 /\ UNCHANGED <<pc, mem>>
              \/ /\ pc' = [pc EXCEPT ![t] = "from_nul"]
                 /\ UNCHANGED <<status, mem>>
         ELSE /\ mem' = [mem EXCEPT ![s[t]] = CopyNonoverlapping(@, b[self[t]])]
              /\ pc' = [pc EXCEPT ![t] = "from_nul"]
              /\ UNCHANGED status
  /\ UNCHANGED <<self, s, old_size, blen, held, leaked, ptr, b, owner, nextId,
                 deallocs, dealloc_size, uaf, origin, dealloc_align>>

\* Lines 164-166: *s = 0u8 directly behind the copied bytes.
FromNul(t) ==
  /\ At(t, "from_nul")
  /\ IF s[t] = NULL
       THEN \/ /\ status' = "segv"
               /\ UNCHANGED <<pc, mem>>
            \/ /\ pc' = [pc EXCEPT ![t] = "from_ret"]
               /\ UNCHANGED <<status, mem>>
       ELSE /\ mem' = [mem EXCEPT ![s[t]].bytes[Len(b[self[t]]) + 1] = 0]
            /\ pc' = [pc EXCEPT ![t] = "from_ret"]
            /\ UNCHANGED status
  /\ UNCHANGED <<self, s, old_size, blen, held, leaked, ptr, b, owner, nextId,
                 deallocs, dealloc_size, uaf, origin, dealloc_align>>

\* Lines 167-169: ArcCStr { ptr: Shared::new(s) } is returned to the caller.
FromReturn(t) ==
  /\ At(t, "from_ret")
  /\ ptr' = [ptr EXCEPT ![self[t]] = s[t]]
  /\ held' = [held EXCEPT ![t][self[t]] = 1]
  /\ pc' = [pc EXCEPT ![t] = "idle"]
  /\ self' = [self EXCEPT ![t] = 0]
  /\ s' = [s EXCEPT ![t] = NULL]
  /\ UNCHANGED <<status, old_size, blen, leaked, b, mem, owner, nextId,
                 deallocs, dealloc_size, uaf, origin, dealloc_align>>

\* The panic of line 161 unwinds out of From: no handle is returned and the
\* block stays allocated.
FromUnwind(t) ==
  /\ At(t, "panicked")
  /\ pc' = [pc EXCEPT ![t] = "idle"]
  /\ self' = [self EXCEPT ![t] = 0]
  /\ s' = [s EXCEPT ![t] = NULL]
  /\ UNCHANGED <<status, old_size, blen, held, leaked, ptr, b, mem, owner,
                 nextId, deallocs, dealloc_size, uaf, origin, dealloc_align>>

\* -------------------------------------------------------------- clone
\* The handles of id that thread t may use: it owns one, and the handle
\* points into the heap.
Owns(t, id) == held[t][id] > 0 /\ ptr[id] \in Addr

\* A fetch_add that adds 2, one that adds nothing, and a fetch_sub that leaves
\* the counter alone.
FetchAddTwo(count) == (count + 2) % Modulus
FetchAddNothing(count) == count
FetchSubNothing(count) == count

\* The counter after fetch_add(1) and after fetch_sub(1): usize arithmetic wraps.
FetchAdd(count) == (count + 1) % Modulus
FetchSub(count) == (count - 1) % Modulus

\* Clone::clone, line 294: fetch_add(1, Relaxed) on the counter.
CloneFetchAdd(t, id) ==
  /\ Idle(t)
  /\ Owns(t, id)
  /\ old_size' = [old_size EXCEPT ![t] = atomic(id)]
  /\ mem' = [mem EXCEPT ![ptr[id]].count = FetchAdd(@)]
  /\ pc' = [pc EXCEPT ![t] = "clone_check"]
  /\ self' = [self EXCEPT ![t] = id]
  /\ uaf' = (uaf \/ ~Valid(id))
  /\ UNCHANGED <<status, s, blen, held, leaked, ptr, b, owner, nextId, deallocs,
                 dealloc_size, origin, dealloc_align>>

\* A guard that compares with the largest value of the counter: it never fires.
OverflowedNever(old) == old > Modulus - 1

\* A guard that already fires at MAX_REFCOUNT.
OverflowedAtMax(old) == old >= MAX_REFCOUNT

\* Line 305: the guard of the abort.
Overflowed(old) == old > MAX_REFCOUNT

\* Lines 305-311: abort() when the previous value was above MAX_REFCOUNT,
\* else the new handle with the same pointer is returned.
CloneCheck(t) ==
  /\ At(t, "clone_check")
  /\ IF Overflowed(old_size[t])
       THEN /\ status' = "abort"
            /\ UNCHANGED <<pc, self, old_size, held>>
       ELSE /\ held' = [held EXCEPT ![t][self[t]] = @ + 1]
            /\ pc' = [pc EXCEPT ![t] = "idle"]
            /\ self' = [self EXCEPT ![t] = 0]
            /\ old_size' = [old_size EXCEPT ![t] = 0]
            /\ UNCHANGED status
  /\ UNCHANGED <<s, blen, leaked, ptr, b, mem, owner, nextId, deallocs,
                 dealloc_size, uaf, origin, dealloc_align>>

\* --------------------------------------------------------------- drop
\* A drop that takes a previous value of 2 for the last one as well.
IsLastOffByOne(old) == old <= 2

\* A drop that tests the value fetch_sub returned against the new value, 0.
IsLastZero(old) == old = 0

\* Line 356: the drop that saw this previous value goes on to deallocate.
IsLast(old) == old = 1

\* Drop::drop, lines 356-358: fetch_sub(1, Release); the drop returns unless
\* the previous value was 1.
DropFetchSub(t, id) ==
  /\ Idle(t)
  /\ Owns(t, id)
  /\ held' = [held EXCEPT ![t][id] = @ - 1]
  /\ mem' = [mem EXCEPT ![ptr[id]].count = FetchSub(@)]
  /\ uaf' = (uaf \/ ~Valid(id))
  /\ IF IsLast(atomic(id))
       THEN /\ pc' = [pc EXCEPT ![t] = "drop_fence"]
            /\ self' = [self EXCEPT ![t] = id]
       ELSE UNCHANGED <<pc, self>>
  /\ UNCHANGED <<status, s, old_size, blen, leaked, ptr, b, owner, nextId,
                 deallocs, dealloc_size, origin, dealloc_align>>

\* A drop that deallocates right behind the fence, the length not read.
DropFenceToDeallocate(t) ==
  /\ At(t, "drop_fence")
  /\ pc' = [pc EXCEPT ![t] = "slow_dealloc"]
  /\ UNCHANGED <<status, self, s, old_size, blen, held, leaked, ptr, b, mem,
                 owner, nextId, deallocs, dealloc_size, uaf, origin,
                 dealloc_align>>

\* A fence that waits until no other thread is inside an operation.
DropFenceWaits(t) ==
  /\ At(t, "drop_fence")
  /\ \A u \in Threads \ {t} : pc[u] = "idle"
  /\ pc' = [pc EXCEPT ![t] = "slow_len"]
  /\ UNCHANGED <<status, self, s, old_size, blen, held, leaked, ptr, b, mem,
                 owner, nextId, deallocs, dealloc_size, uaf, origin,
                 dealloc_align>>

\* Line 377: atomic::fence(Acquire), then drop_slow is entered.
DropFence(t) ==
  /\ At(t, "drop_fence")
  /\ pc' = [pc EXCEPT ![t] = "slow_len"]
  /\ UNCHANGED <<status, self, s, old_size, blen, held, leaked, ptr, b, mem,
                 owner, nextId, deallocs, dealloc_size, uaf,
                 origin, dealloc_align>>

\* drop_slow, lines 239-240: the fence, then blen = to_bytes_with_nul().len().
DropSlowLen(t) ==
  /\ At(t, "slow_len")
  /\ blen' = [blen EXCEPT ![t] = Len(to_bytes_with_nul(deref(self[t])))]
  /\ pc' = [pc EXCEPT ![t] = "slow_dealloc"]
  /\ uaf' = (uaf \/ ~Valid(self[t]))
  /\ UNCHANGED <<status, self, s, old_size, held, leaked, ptr, b, mem, owner,
                 nextId, deallocs, dealloc_size, origin, dealloc_align>>

\* drop_slow, lines 241-243: heap::deallocate(ptr, aus + blen, align).
DropSlowDeallocate(t) ==
  /\ At(t, "slow_dealloc")
  /\ mem' = [mem EXCEPT ![ptr[self[t]]] = FreeBlock]
  /\ owner' = [owner EXCEPT ![ptr[self[t]]] = 0]
  /\ deallocs' = [deallocs EXCEPT ![self[t]] = IF @ < 2 THEN @ + 1 ELSE @]
  /\ dealloc_size' = [dealloc_size EXCEPT ![self[t]] = aus + blen[t]]
  /\ dealloc_align' = [dealloc_align EXCEPT ![self[t]] = align]
  /\ uaf' = (uaf \/ ~Valid(self[t]))
  /\ pc' = [pc EXCEPT ![t] = "idle"]
  /\ self' = [self EXCEPT ![t] = 0]
  /\ blen' = [blen EXCEPT ![t] = 0]
  /\ UNCHANGED <<status, s, old_size, held, leaked, ptr, b, nextId, origin>>

\* ------------------------------------------------- the callers' moves
\* mem::forget of a handle (lines 296-301): it is discarded and drop never runs.
Forget(t, id) ==
  /\ Idle(t)
  /\ Owns(t, id)
  /\ held' = [held EXCEPT ![t][id] = @ - 1]
  /\ leaked' = [leaked EXCEPT ![id] = @ + 1]
  /\ UNCHANGED <<status, pc, self, s, old_size, blen, ptr, b, mem, owner,
                 nextId, deallocs, dealloc_size, uaf, origin, dealloc_align>>

\* unsafe impl Send (line 142): a handle is moved from thread t to thread u.
Send(t, u, id) ==
  /\ Idle(t)
  /\ Idle(u)
  /\ t # u
  /\ held[t][id] > 0
  /\ held' = [held EXCEPT ![t][id] = @ - 1, ![u][id] = @ + 1]
  /\ UNCHANGED <<status, pc, self, s, old_size, blen, leaked, ptr, b, mem,
                 owner, nextId, deallocs, dealloc_size, uaf,
                 origin, dealloc_align>>

\* Deref::deref through an owned handle (lines 319-332): the payload is read.
Deref(t, id) ==
  /\ Idle(t)
  /\ Owns(t, id)
  /\ uaf' = (uaf \/ ~Valid(id))
  /\ UNCHANGED <<status, pc, self, s, old_size, blen, held, leaked, ptr, b,
                 mem, owner, nextId, deallocs, dealloc_size,
                 origin, dealloc_align>>

\* Debug::fmt through an owned handle (lines 528-532): the payload is read.
Debug(t, id) ==
  /\ Idle(t)
  /\ Owns(t, id)
  /\ uaf' = (uaf \/ ~Valid(id))
  /\ UNCHANGED <<status, pc, self, s, old_size, blen, held, leaked, ptr, b,
                 mem, owner, nextId, deallocs, dealloc_size, origin,
                 dealloc_align>>

\* ArcCStr::strong_count through an owned handle (lines 221-223).
StrongCount(t, id) ==
  /\ Idle(t)
  /\ Owns(t, id)
  /\ uaf' = (uaf \/ ~Valid(id))
  /\ UNCHANGED <<status, pc, self, s, old_size, blen, held, leaked, ptr, b,
                 mem, owner, nextId, deallocs, dealloc_size,
                 origin, dealloc_align>>

\* ArcCStr::ptr_eq on two owned handles (lines 262-264): the two pointers are
\* compared, no memory is read.
PtrEq(t, x, y) ==
  /\ Idle(t)
  /\ Owns(t, x)
  /\ Owns(t, y)
  /\ UNCHANGED vars

\* ==, cmp or hash on two owned handles (lines 399-401, 522-524, 541-543): both
\* payloads are read.
Compare(t, x, y) ==
  /\ Idle(t)
  /\ Owns(t, x)
  /\ Owns(t, y)
  /\ uaf' = (uaf \/ ~Valid(x) \/ ~Valid(y))
  /\ UNCHANGED <<status, pc, self, s, old_size, blen, held, leaked, ptr, b,
                 mem, owner, nextId, deallocs, dealloc_size,
                 origin, dealloc_align>>

\* ------------------------------------------------------ specification
Next ==
  \/ \E t \in Threads, bytes \in Inputs : FromSlice(t, bytes)
  \/ \E t \in Threads : FromStore(t)
  \/ \E t \in Threads : FromCopy(t)
  \/ \E t \in Threads : FromNul(t)
  \/ \E t \in Threads : FromReturn(t)
  \/ \E t \in Threads : FromUnwind(t)
  \/ \E t \in Threads, id \in AllocId : CloneFetchAdd(t, id)
  \/ \E t \in Threads : CloneCheck(t)
  \/ \E t \in Threads, id \in AllocId : DropFetchSub(t, id)
  \/ \E t \in Threads : DropFence(t)
  \/ \E t \in Threads : DropSlowLen(t)
  \/ \E t \in Threads : DropSlowDeallocate(t)
  \/ \E t \in Threads, id \in AllocId : Forget(t, id)
  \/ \E t, u \in Threads, id \in AllocId : Send(t, u, id)
  \/ \E t \in Threads, id \in AllocId : Deref(t, id)
  \/ \E t \in Threads, id \in AllocId : StrongCount(t, id)
  \/ \E t \in Threads, x, y \in AllocId : Compare(t, x, y)
  \/ \E t \in Threads, x, y \in AllocId : PtrEq(t, x, y)

Spec == Init /\ [][Next]_vars

\* A thread that has entered drop keeps running until drop returns: the steps
\* of drop (lines 377, 239-243) wait for nothing.
DropFairness ==
  \A t \in Threads :
    /\ WF_vars(DropFence(t))
    /\ WF_vars(DropSlowLen(t))
    /\ WF_vars(DropSlowDeallocate(t))

FairSpec == Spec /\ DropFairness

\* A thread inside clone keeps running as well: the check of line 305 waits
\* for nothing.  With both, every thread inside an operation is scheduled.
CloneFairness == \A t \in Threads : WF_vars(CloneCheck(t))

ScheduledSpec == Spec /\ DropFairness /\ CloneFairness

\* The content specification: one thread constructs two handles from any two
\* byte sequences of up to MaxLen bytes, reads and compares them, and drops them.
ContentInputs == UNION {[1..n -> 0..MaxByte] : n \in 0..MaxLen}
Operands == {1, 2}
Main == CHOOSE t \in Threads : \A u \in Threads : t <= u

ContentNext ==
  \/ \E bytes \in ContentInputs : nextId \in Operands /\ FromSlice(Main, bytes)
  \/ FromStore(Main)
  \/ FromCopy(Main)
  \/ FromNul(Main)
  \/ FromReturn(Main)
  \/ FromUnwind(Main)
  \/ \E id \in Operands : Deref(Main, id)
  \/ \E x, y \in Operands : Compare(Main, x, y)
  \/ \E id \in Operands : DropFetchSub(Main, id)
  \/ DropFence(Main)
  \/ DropSlowLen(Main)
  \/ DropSlowDeallocate(Main)

ContentSpec == Init /\ [][ContentNext]_vars

\* The entry specification: one thread constructs two handles through any of
\* the five entry points, reads them and drops them.
Foo == <<102, 111, 111>>
Texts == {<<>>, <<1>>, <<1, 0>>, <<233>>, Foo}
Slices == {as_bytes(text) : text \in Texts}
CStrings == {<<0>>, <<1, 0>>, Foo \o <<0>>}

EntryNext ==
  \/ \E bytes \in Slices : nextId \in Operands /\ FromSlice(Main, bytes)
  \/ \E text \in Texts : nextId \in Operands /\ FromStr(Main, text)
  \/ \E string \in Texts : nextId \in Operands /\ FromString(Main, string)
  \/ \E cstr \in CStrings : nextId \in Operands /\ FromCStr(Main, cstr)
  \/ \E cstring \in CStrings : nextId \in Operands /\ FromCString(Main, cstring)
  \/ FromStore(Main)
  \/ FromCopy(Main)
  \/ FromNul(Main)
  \/ FromReturn(Main)
  \/ FromUnwind(Main)
  \/ \E id \in Operands : CloneFetchAdd(Main, id)
  \/ CloneCheck(Main)
  \/ \E id \in Operands : Deref(Main, id)
  \/ \E id \in Operands : Debug(Main, id)
  \/ \E x, y \in Operands : Compare(Main, x, y)
  \/ \E x, y \in Operands : PtrEq(Main, x, y)
  \/ \E id \in Operands : DropFetchSub(Main, id)
  \/ DropFence(Main)
  \/ DropSlowLen(Main)
  \/ DropSlowDeallocate(Main)

EntrySpec == Init /\ [][EntryNext]_vars

\* ------------------------------------------------- the handles' state
\* Thread t is inside clone or drop on a handle of id.
InClone(t, id) == pc[t] = "clone_check" /\ self[t] = id
InDrop(t, id) == pc[t] \in {"drop_fence", "slow_len", "slow_dealloc"} /\ self[t] = id

\* The number of handles of id the threads own.
RECURSIVE HeldUpTo(_, _)
HeldUpTo(n, id) == IF n = 0 THEN 0 ELSE held[n][id] + HeldUpTo(n - 1, id)
Live(id) == HeldUpTo(NumThreads, id)

ClonesInFlight(id) == Cardinality({t \in Threads : InClone(t, id)})
Droppers(id) == {t \in Threads : InDrop(t, id)}

\* A handle of id exists: a thread owns one, or is dropping one and has not
\* finished, and it points to a block of the heap.
Exists(id) ==
  /\ ptr[id] # NULL
  /\ \E t \in Threads : held[t][id] > 0 \/ InDrop(t, id)

\* ------------------------------------------------------------- claims
\* C1: in every interleaving of clone, dereference and drop, the block of an
\* allocation is still allocated (and still that allocation's) while any handle
\* of it exists, and no access through a handle touched a block not its own.
C1_NoUseAfterFree ==
  /\ \A id \in AllocId : Exists(id) => Valid(id)
  /\ ~uaf

\* C1 witness: a thread is about to deallocate an allocation through the last
\* handle of it, the block still allocated, while the other thread is inside a
\* clone on a handle of a second allocation.
C1_Witness ==
  \E id, other \in AllocId, t, u \in Threads :
    /\ id # other /\ t # u
    /\ pc[t] = "slow_dealloc" /\ self[t] = id /\ Valid(id)
    /\ InClone(u, other) /\ Valid(other)

\* C2: an allocation is deallocated at most once: no two drops of it are both
\* on the deallocating path, and a drop enters that path only when its
\* fetch_sub saw the counter at 1.
C2_DeallocatedAtMostOnce ==
  /\ [](\A id \in AllocId : deallocs[id] <= 1 /\ Cardinality(Droppers(id)) <= 1)
  /\ [][\A t \in Threads, id \in AllocId :
          (~InDrop(t, id) /\ InDrop(t, id)') => (atomic(id) = 1 /\ atomic(id)' = 0)]_vars

\* C2 witness: an allocation was deallocated after two threads dropped handles of it.
C2_Witness ==
  \E id \in AllocId :
    /\ deallocs[id] = 1
    /\ Live(id) = 0
    /\ b[id] # <<>>
    /\ \A a \in Addr : owner[a] # id

\* C3: the counter is the number of handles: 1 when construction returns, and
\* with no handle leaked and no clone in flight it equals the number of live
\* handles; in general it counts the live, the leaked and the handles clones are
\* about to return, modulo 2^W.
C3_CountIsLiveHandles ==
  \A id \in AllocId :
    (ptr[id] # NULL /\ Live(id) > 0) =>
      /\ strong_count(id) = (Live(id) + leaked[id] + ClonesInFlight(id)) % Modulus
      /\ (leaked[id] = 0 /\ ClonesInFlight(id) = 0) => strong_count(id) = Live(id)

\* C3 witness: after a clone, two handles are live, none leaked, and the count is 2.
C3_Witness ==
  \E id \in AllocId :
    /\ Live(id) = 2 /\ leaked[id] = 0 /\ ClonesInFlight(id) = 0
    /\ strong_count(id) = 2

\* The bytes of a sequence before its first zero byte.
UpToZero(bytes) ==
  SubSeq(bytes, 1,
         CHOOSE n \in 0..Len(bytes) :
           /\ \A i \in 1..n : bytes[i] # 0
           /\ n = Len(bytes) \/ bytes[n + 1] = 0)

\* Every handle construction returned for id, and every clone of it, was dropped.
AllDropped(id) ==
  /\ ptr[id] # NULL
  /\ Live(id) = 0 /\ leaked[id] = 0 /\ ClonesInFlight(id) = 0

\* C4: once every handle of an allocation has been dropped and the drops have
\* returned, the allocation has been deallocated; with the dropping threads
\* scheduled fairly it is eventually deallocated (unless the process ended
\* first); while a handle remains, the block is allocated and the content read
\* through the handle is the constructed content.
C4_ReleasedWhenAllDropped ==
  /\ [](\A id \in AllocId :
          /\ (AllDropped(id) /\ Droppers(id) = {}) => deallocs[id] = 1
          /\ (ptr[id] # NULL /\ Live(id) > 0) =>
               (Valid(id) /\ to_bytes(deref(id)) = UpToZero(b[id])))
  /\ \A id \in AllocId :
       AllDropped(id) ~> (deallocs[id] = 1 \/ status # "running")

\* C4 witness: every handle of an allocation with content <<1>> was dropped, the
\* drops returned, the allocation was deallocated and the heap is empty again.
C4_Witness ==
  \E id \in AllocId :
    /\ AllDropped(id) /\ Droppers(id) = {}
    /\ deallocs[id] = 1
    /\ b[id] = <<1>>
    /\ \A a \in Addr : owner[a] = 0
    /\ status = "running"

ZeroFree(bytes) == \A i \in 1..Len(bytes) : bytes[i] # 0

\* C5: constructing a handle from any zero-free byte sequence, the empty one
\* included, returns a handle (it does not panic), and through it to_bytes() is
\* the input and to_bytes_with_nul() the input followed by one 0.
C5_RoundTrip ==
  /\ \A t \in Threads : pc[t] = "panicked" => ~ZeroFree(b[self[t]])
  /\ \A id \in AllocId :
       (ZeroFree(b[id]) /\ Live(id) > 0 /\ ptr[id] # NULL) =>
         /\ to_bytes(deref(id)) = b[id]
         /\ to_bytes_with_nul(deref(id)) = b[id] \o <<0>>

\* C6: while a handle of an allocation exists, its payload region holds the
\* bytes given at construction and the terminator, every index of the view read
\* through the handle is the input's byte, nothing of the block is unwritten,
\* and no step changes the payload.
C6_PayloadImmutable ==
  /\ [](\A id \in AllocId :
          (Exists(id) \/ (ptr[id] # NULL /\ ClonesInFlight(id) > 0)) =>
            /\ mem[ptr[id]].bytes = b[id] \o <<0>>
            /\ mem[ptr[id]].count # POISON
            /\ \A i \in 1..Len(to_bytes(deref(id))) : deref(id)[i] = b[id][i])
  /\ [][\A id \in AllocId :
          (Exists(id) /\ Exists(id)') => mem'[ptr[id]].bytes = mem[ptr[id]].bytes]_vars

\* C6 witness: two threads own handles of the same allocation, one of them in
\* the middle of a clone, and the view through the handle is the input.
C6_Witness ==
  \E id \in AllocId, t, u \in Threads :
    /\ t # u /\ held[t][id] > 0 /\ held[u][id] > 0
    /\ b[id] = <<1>> /\ to_bytes(deref(id)) = <<1>>
    /\ InClone(u, id)

\* C7: two existing handles are ptr_eq exactly when they are handles of the
\* same allocation, whatever their content and whatever was allocated and
\* freed before.
C7_PtrEqIsIdentity ==
  \A x, y \in AllocId :
    (Exists(x) /\ Exists(y)) => (ptr_eq(x, y) <=> x = y)

\* C7 witness: handles of two allocations with the same content exist, not
\* ptr_eq, the second allocation at the address a third, freed one had.
C7_Witness ==
  \E x, y, z \in AllocId :
    /\ x # y /\ Live(x) > 0 /\ Live(y) > 0 /\ Exists(x) /\ Exists(y)
    /\ b[x] = b[y] /\ b[x] = <<1>>
    /\ ~ptr_eq(x, y)
    /\ z # y /\ deallocs[z] = 1 /\ ptr[z] = ptr[y]

\* The content a handle of id is to show, and the lexicographic order of bytes.
Content(id) == UpToZero(b[id])
LexLess(x, y) ==
  \E k \in 0..Len(x) :
    /\ k <= Len(y)
    /\ \A i \in 1..k : x[i] = y[i]
    /\ \/ k = Len(x) /\ k < Len(y)
       \/ k < Len(x) /\ k < Len(y) /\ x[k + 1] < y[k + 1]
LexOrder(x, y) ==
  IF x = y THEN "Equal" ELSE IF LexLess(x, y) THEN "Less" ELSE "Greater"

\* C8: ==, !=, partial_cmp, cmp, <, <=, >, >= and the hash of two owned handles
\* are those of their content: equal content gives equal, Equal and the same
\* hash whatever the addresses and counters, different content is ordered
\* lexicographically by bytes.
C8_ComparisonsByContent ==
  \A x, y \in AllocId :
    (Live(x) > 0 /\ Live(y) > 0 /\ ptr[x] # NULL /\ ptr[y] # NULL) =>
      /\ eq(x, y) <=> Content(x) = Content(y)
      /\ ne(x, y) <=> Content(x) # Content(y)
      /\ cmp(x, y) = LexOrder(Content(x), Content(y))
      /\ partial_cmp(x, y) = <<"Some", LexOrder(Content(x), Content(y))>>
      /\ lt(x, y) <=> LexLess(Content(x), Content(y))
      /\ le(x, y) <=> (LexLess(Content(x), Content(y)) \/ Content(x) = Content(y))
      /\ gt(x, y) <=> LexLess(Content(y), Content(x))
      /\ ge(x, y) <=> (LexLess(Content(y), Content(x)) \/ Content(x) = Content(y))
      /\ (hash(x) = hash(y)) <=> Content(x) = Content(y)

\* C8 witness: two live allocations at different addresses hold the same
\* two-byte content and compare equal, Equal and with the same hash.
C8_Witness ==
  \E x, y \in AllocId :
    /\ x # y /\ Live(x) > 0 /\ Live(y) > 0
    /\ ptr[x] # ptr[y]
    /\ Content(x) = <<1, 2>> /\ Content(y) = <<1, 2>>
    /\ eq(x, y) /\ cmp(x, y) = "Equal" /\ hash(x) = hash(y)
    /\ ~lt(x, y) /\ le(x, y)

\* C9: clone's fetch_add returns the counter's value before the increment, and
\* clone aborts, returning no handle, exactly when that value is above
\* 2^(W-1) - 1; otherwise it returns one more handle and does not abort.
C9_AbortAboveMax ==
  /\ [][\A t \in Threads, id \in AllocId :
          CloneFetchAdd(t, id) =>
            /\ old_size'[t] = strong_count(id)
            /\ strong_count(id)' = (strong_count(id) + 1) % 2^W]_vars
  /\ [][\A t \in Threads :
          CloneCheck(t) =>
            IF old_size[t] > 2^(W - 1) - 1
              THEN status' = "abort" /\ held' = held
              ELSE /\ status' = "running"
                   /\ held'[t][self[t]] = held[t][self[t]] + 1]_vars

\* C9 witness: the process aborted in a clone whose fetch_add saw MAX_REFCOUNT + 1,
\* while a clone of another allocation, which saw 1, had returned its handle.
C9_Witness ==
  \E t \in Threads, id, other \in AllocId :
    /\ status = "abort" /\ InClone(t, id) /\ old_size[t] = MAX_REFCOUNT + 1
    /\ other # id /\ Live(other) = 2

\* C10: when heap::allocate fails, construction ends fatally without a write
\* through the null pointer: From never passes the store of the counter with a
\* null s, no write through null faults, and no handle with a null pointer is
\* returned.
C10_AllocFailureIsFatal ==
  /\ \A t \in Threads :
       pc[t] \in {"from_copy", "from_nul", "from_ret"} => s[t] # NULL
  /\ status # "segv"
  /\ \A t \in Threads, id \in AllocId : held[t][id] > 0 => ptr[id] # NULL

\* The bytes of a source without its own terminator.
SourceBytes(o) ==
  IF o.kind \in {"str", "String"} THEN as_bytes(o.data)
  ELSE IF o.kind \in {"CStr", "CString"} THEN SubSeq(o.data, 1, Len(o.data) - 1)
  ELSE o.data

\* C11: every entry point (byte slice, str, String, CString, CStr) returns a
\* handle, none panics; the handle points to a fresh block whose counter is 1
\* and whose payload is the source's bytes without the source's terminator
\* followed by one zero byte, which is what From<&[u8]> was given.
C11_EntryPoints ==
  /\ \A t \in Threads : pc[t] # "panicked"
  /\ \A t \in Threads :
       (pc[t] = "from_ret" /\ s[t] # NULL) => mem[s[t]].count = 1
  /\ \A id \in AllocId :
       (origin[id] # NoSource /\ Live(id) > 0 /\ ptr[id] # NULL) =>
         /\ Valid(id)
         /\ b[id] = SourceBytes(origin[id])
         /\ mem[ptr[id]].bytes = SourceBytes(origin[id]) \o <<0>>
         /\ \A other \in AllocId \ {id} : Live(other) > 0 => ptr[other] # ptr[id]

\* C12: the Debug output of a handle is the Debug output of its content, a
\* double quote, the escaped content and a double quote, whatever the address
\* and the counter; a handle made from "foo" is written as "foo" in quotes.
C12_DebugIsContentQuoted ==
  \A id \in AllocId :
    (Live(id) > 0 /\ ptr[id] # NULL) =>
      /\ fmt(id) = <<34>> \o Escaped(Content(id)) \o <<34>>
      /\ Head(fmt(id)) = 34 /\ fmt(id)[Len(fmt(id))] = 34
      /\ origin[id] = Source("str", Foo) => fmt(id) = <<34, 102, 111, 111, 34>>

\* C12 witness: a handle made from the str "foo", cloned to counter 2, and a
\* handle made from a CString at another address are both written as "foo" in
\* quotes.
C12_Witness ==
  \E x, y \in AllocId :
    /\ Live(x) = 2 /\ strong_count(x) = 2 /\ Live(y) = 1
    /\ origin[x] = Source("str", Foo) /\ origin[y].kind = "CString"
    /\ ptr[x] # ptr[y]
    /\ fmt(x) = <<34, 102, 111, 111, 34>> /\ fmt(y) = fmt(x)

\* C13: the step that deallocates the block of an allocation passes
\* heap::deallocate the size and the alignment heap::allocate was given for it
\* at construction, the size being the header's plus the input's length plus 1.
C13_DeallocateAsAllocated ==
  [][\A t \in Threads :
       DropSlowDeallocate(t) =>
         LET id == self[t] IN
           /\ dealloc_size'[id] = mem[ptr[id]].size
           /\ dealloc_size'[id] = aus + Len(b[id]) + 1
           /\ dealloc_align'[id] = mem[ptr[id]].align]_vars

\* Fewer than 2^(W-1) threads are inside a clone of a handle of id.
FewCloners(id) == ClonesInFlight(id) < 2^(W - 1)

\* C14: with MAX_REFCOUNT = 2^(W-1) - 1 and fewer than 2^(W-1) threads cloning
\* at the same time, whatever is cloned, dropped and leaked: a fetch_add never
\* wraps the counter, the counter is the true number of handles (live, leaked
\* and about to be returned), at most 2^W - 1, and while a handle is owned the
\* counter is not below the number of owned handles, no drop is on its way to
\* deallocate and the block is allocated.
C14_NoWrapBelowMax ==
  /\ [](\A id \in AllocId :
          (ptr[id] # NULL /\ Live(id) > 0 /\ FewCloners(id)) =>
            /\ atomic(id) = Live(id) + leaked[id] + ClonesInFlight(id)
            /\ atomic(id) <= 2^W - 1
            /\ atomic(id) >= Live(id)
            /\ Droppers(id) = {}
            /\ Valid(id))
  /\ [][\A t \in Threads, id \in AllocId :
          (CloneFetchAdd(t, id) /\ FewCloners(id)') =>
            /\ atomic(id) < 2^W - 1
            /\ atomic(id)' = atomic(id) + 1]_vars

\* C14 witness: after a leaked clone the counter stands at MAX_REFCOUNT + 1; the
\* next clone raised it to 2^W - 1, the largest value, and aborted the process.
C14_Witness ==
  \E t \in Threads, id \in AllocId :
    /\ status = "abort" /\ InClone(t, id) /\ old_size[t] = MAX_REFCOUNT + 1
    /\ leaked[id] > 0 /\ Live(id) > 0
    /\ ClonesInFlight(id) = 1
    /\ atomic(id) = 2^W - 1

\* The allocator's books, and the payload bytes (terminator included) of the
\* block the handles of id point to.
Heap == <<owner, deallocs, dealloc_size, dealloc_align>>
Payload(id) == mem[ptr[id]].bytes

\* C15: drop decrements the counter first; when the value before was not 1 the
\* drop has returned with that step, nothing but the counter touched and
\* nothing deallocated; when it was 1 the thread goes on to the fence, behind
\* the fence it reads the payload's length, leaving memory as it is, and only
\* then deallocates; deallocation happens in no other step, and no thread
\* owns a handle, is inside a clone or reads the block from then on.
C15_DropStepOrder ==
  /\ [][\A t \in Threads, id \in AllocId :
          DropFetchSub(t, id) =>
            /\ atomic(id)' = (atomic(id) - 1) % 2^W
            /\ Payload(id)' = Payload(id)
            /\ Heap' = Heap
            /\ IF atomic(id) # 1
                 THEN pc'[t] = "idle"
                 ELSE pc'[t] = "drop_fence" /\ self'[t] = id]_vars
  /\ [][\A t \in Threads :
          /\ pc[t] = "drop_fence" /\ pc'[t] # pc[t] =>
               pc'[t] = "slow_len" /\ mem' = mem /\ Heap' = Heap
          /\ pc[t] = "slow_len" /\ pc'[t] # pc[t] =>
               /\ pc'[t] = "slow_dealloc" /\ mem' = mem /\ Heap' = Heap
               /\ blen'[t] = strlen(Payload(self[t])) + 1
          /\ pc[t] = "slow_dealloc" /\ pc'[t] # pc[t] =>
               /\ pc'[t] = "idle"
               /\ deallocs'[self[t]] = deallocs[self[t]] + 1
               /\ owner'[ptr[self[t]]] = 0
          /\ pc'[t] = "drop_fence" /\ pc[t] # pc'[t] => pc[t] = "idle"
          /\ pc'[t] = "slow_len" /\ pc[t] # pc'[t] => pc[t] = "drop_fence"
          /\ pc'[t] = "slow_dealloc" /\ pc[t] # pc'[t] => pc[t] = "slow_len"]_vars
  /\ [][\A id \in AllocId :
          deallocs'[id] # deallocs[id] =>
            \E t \in Threads :
              pc[t] = "slow_dealloc" /\ self[t] = id /\ pc'[t] = "idle"]_vars
  /\ [](\A t \in Threads, id \in AllocId :
          InDrop(t, id) =>
            /\ Live(id) = 0 /\ ClonesInFlight(id) = 0 /\ atomic(id) = 0
            /\ ~uaf)

\* C15 witness: a thread has passed the fence and read the length 2 of the
\* payload <<1, 0>> it is about to deallocate, the block still allocated and
\* the counter 0, while the other thread, idle, owns the one handle left of
\* another allocation.
C15_Witness ==
  \E t, u \in Threads, id, other \in AllocId :
    /\ t # u /\ id # other
    /\ pc[t] = "slow_dealloc" /\ self[t] = id /\ blen[t] = 2
    /\ b[id] = <<1>> /\ Valid(id) /\ atomic(id) = 0 /\ deallocs[id] = 0
    /\ pc[u] = "idle" /\ held[u][other] = 1 /\ strong_count(other) = 1
    /\ leaked[other] = 0 /\ Valid(other)

\* C16: an input with a zero byte in it is not rejected: From does not panic
\* on it and stores it whole; the view read through the handle is the input up
\* to its first zero byte and the terminator, shorter than the input, and the
\* bytes behind the first zero byte are not in the view.
C16_ViewEndsAtFirstZero ==
  /\ \A t \in Threads : pc[t] = "panicked" => ZeroFree(b[self[t]])
  /\ \A id \in AllocId :
       (~ZeroFree(b[id]) /\ Live(id) > 0 /\ ptr[id] # NULL) =>
         /\ Payload(id) = b[id] \o <<0>>
         /\ to_bytes_with_nul(deref(id)) = UpToZero(b[id]) \o <<0>>
         /\ Len(to_bytes(deref(id))) < Len(b[id])
         /\ \A i \in 1..Len(to_bytes(deref(id))) :
              deref(id)[i] = b[id][i] /\ deref(id)[i] # 0

\* C16 witness: handles made from <<0, 1>> and from <<1, 0>> are owned; the
\* view through the first is the terminator alone, the 1 not visible, the view
\* through the second is <<1, 0>>.
C16_Witness ==
  \E x, y \in AllocId :
    /\ Live(x) > 0 /\ Live(y) > 0 /\ Valid(x) /\ Valid(y)
    /\ b[x] = <<0, 1>> /\ deref(x) = <<0>> /\ to_bytes(deref(x)) = <<>>
    /\ b[y] = <<1, 0>> /\ deref(y) = <<1, 0>>

\* C17: a clone that does not abort changes nothing but the counter, which its
\* fetch_add raises by exactly 1 in one step; the payload with its terminator,
\* the handles' address, every other block and the allocator's books stay as
\* they are, nothing is allocated, and the handle returned is one more handle
\* of the same allocation at the same address.
C17_CloneTouchesCounterOnly ==
  /\ [][\A t \in Threads, id \in AllocId :
          (CloneFetchAdd(t, id) /\ atomic(id) <= MAX_REFCOUNT) =>
            /\ atomic(id)' = atomic(id) + 1
            /\ mem' = [mem EXCEPT ![ptr[id]].count = atomic(id) + 1]
            /\ Payload(id)' = Payload(id)
            /\ ptr' = ptr /\ Heap' = Heap /\ nextId' = nextId /\ held' = held]_vars
  /\ [][\A t \in Threads :
          (CloneCheck(t) /\ old_size[t] <= MAX_REFCOUNT) =>
            /\ status' = "running"
            /\ mem' = mem /\ ptr' = ptr /\ Heap' = Heap /\ nextId' = nextId
            /\ held' = [held EXCEPT ![t][self[t]] = held[t][self[t]] + 1]]_vars

\* C17 witness: the only allocation made, from <<1, 0>>, was cloned by the
\* thread that owns it: two handles, counter 2, payload and address as
\* constructed, nothing else allocated or deallocated.
C17_Witness ==
  \E t \in Threads, id \in AllocId :
    /\ pc[t] = "idle" /\ held[t][id] = 2 /\ strong_count(id) = 2
    /\ b[id] = <<1, 0>> /\ Payload(id) = <<1, 0, 0>> /\ Valid(id)
    /\ nextId = 2 /\ \A a \in Addr \ {ptr[id]} : owner[a] = 0
    /\ \A other \in AllocId : deallocs[other] = 0

\* The block From is filling on thread t, and the number of input bytes.
Block(t) == mem[s[t]]
InLen(t) == Len(b[self[t]])
InFrom(t) == pc[t] \in {"from_store", "from_copy", "from_nul", "from_ret"}
Unwritten(bytes, from) == \A i \in from..Len(bytes) : bytes[i] = POISON

\* C18: From writes in this order: the counter, set to 1, first; then the
\* input's bytes, verbatim, directly behind the header; then one zero byte
\* directly behind them; each step writes its part only, the places follow
\* each other in that order, and a handle of the allocation is owned only
\* after the last write, so every owned handle points to a block whose
\* counter, payload and terminator are written.
C18_ConstructionOrder ==
  /\ [](\A t \in Threads :
          (InFrom(t) /\ s[t] # NULL) =>
            /\ Live(self[t]) = 0 /\ ptr[self[t]] = NULL
            /\ pc[t] = "from_store" =>
                 Block(t).count = POISON /\ Unwritten(Block(t).bytes, 1)
            /\ pc[t] = "from_copy" =>
                 Block(t).count = 1 /\ Unwritten(Block(t).bytes, 1)
            /\ pc[t] = "from_nul" =>
                 /\ Block(t).count = 1
                 /\ SubSeq(Block(t).bytes, 1, InLen(t)) = b[self[t]]
                 /\ Unwritten(Block(t).bytes, InLen(t) + 1)
            /\ pc[t] = "from_ret" =>
                 Block(t).count = 1 /\ Block(t).bytes = b[self[t]] \o <<0>>)
  /\ [](\A id \in AllocId :
          (Live(id) > 0 /\ ptr[id] # NULL) =>
            /\ atomic(id) # POISON
            /\ Payload(id) = b[id] \o <<0>>)
  /\ [][\A t \in Threads :
          /\ pc'[t] = "from_store" /\ pc[t] # pc'[t] => pc[t] = "idle"
          /\ pc'[t] = "from_copy" /\ pc[t] # pc'[t] => pc[t] = "from_store"
          /\ pc'[t] = "from_nul" /\ pc[t] # pc'[t] => pc[t] = "from_copy"
          /\ pc'[t] = "from_ret" /\ pc[t] # pc'[t] => pc[t] = "from_nul"
          /\ (pc[t] = "from_ret" /\ pc'[t] # pc[t]) =>
               /\ pc'[t] = "idle" /\ mem' = mem
               /\ ptr'[self[t]] = s[t] /\ held'[t][self[t]] = 1]_vars
  /\ [][\A id \in AllocId :
          (Live(id) = 0 /\ Live(id)' > 0) =>
            \E t \in Threads : pc[t] = "from_ret" /\ self[t] = id]_vars

\* C18 witness: From has stored the counter and copied the input <<1, 0>> but
\* not yet written the terminator, and no handle of the allocation exists,
\* while the other thread owns a handle of a finished allocation.
C18_Witness ==
  \E t, u \in Threads, other \in AllocId :
    /\ t # u /\ pc[t] = "from_nul" /\ s[t] # NULL
    /\ b[self[t]] = <<1, 0>>
    /\ Block(t).count = 1 /\ Block(t).bytes = <<1, 0, POISON>>
    /\ Live(self[t]) = 0 /\ ptr[self[t]] = NULL
    /\ held[u][other] > 0 /\ Valid(other) /\ Payload(other) = b[other] \o <<0>>

\* Thread t is inside a clone or a drop, and the number of steps the
\* operation has left at a place.
InOperation(t) == pc[t] \in {"clone_check", "drop_fence", "slow_len", "slow_dealloc"}
Remaining(place) ==
  CASE place = "drop_fence" -> 3
    [] place = "slow_len" -> 2
    [] place \in {"slow_dealloc", "clone_check"} -> 1
    [] OTHER -> 0

\* C19: no operation waits: whatever the other threads are doing, a thread
\* that owns handles can take the step of clone, drop, deref, strong_count,
\* ptr_eq and the comparisons, and a thread inside clone or drop can take its
\* next step; every step of an operation leaves one step fewer to take (at most
\* 2 for clone, 4 for drop, no retry), no step moves another thread, and a
\* scheduled thread leaves every operation it started, unless the process ends.
C19_WaitFree ==
  /\ [](status = "running" =>
          \A t \in Threads :
            /\ pc[t] = "clone_check" => ENABLED CloneCheck(t)
            /\ pc[t] = "drop_fence" => ENABLED DropFence(t)
            /\ pc[t] = "slow_len" => ENABLED DropSlowLen(t)
            /\ pc[t] = "slow_dealloc" => ENABLED DropSlowDeallocate(t)
            /\ pc[t] = "idle" =>
                 \A x, y \in AllocId :
                   (Owns(t, x) /\ Owns(t, y)) =>
                     /\ ENABLED CloneFetchAdd(t, x)
                     /\ ENABLED DropFetchSub(t, x)
                     /\ ENABLED Deref(t, x)
                     /\ ENABLED StrongCount(t, x)
                     /\ ENABLED PtrEq(t, x, y)
                     /\ ENABLED Compare(t, x, y))
  /\ [][\A t \in Threads :
          /\ (InOperation(t) /\ pc'[t] # pc[t]) =>
               Remaining(pc'[t]) = Remaining(pc[t]) - 1
          /\ (pc[t] = "idle" /\ InOperation(t)') =>
               Remaining(pc'[t]) <= 3
          /\ pc'[t] # pc[t] => \A u \in Threads \ {t} : pc'[u] = pc[u]]_vars
  /\ \A t \in Threads :
       InOperation(t) ~> (pc[t] = "idle" \/ status # "running")

\* C19 witness: one thread is inside a clone and the other inside the drop of
\* another handle of the same allocation, both able to go on.
C19_Witness ==
  \E t, u \in Threads, id \in AllocId :
    /\ t # u /\ status = "running"
    /\ pc[t] = "clone_check" /\ self[t] = id
    /\ held[u][id] > 0 /\ pc[u] = "idle"
    /\ ENABLED CloneCheck(t) /\ ENABLED DropFetchSub(u, id)

====
